---- MODULE Spec2Model ----
(***************************************************************************)
(* Model of the video-chapters processing core:                            *)
(*   - core.py    VideoProcessor (language resolution, pipeline, cleanup)  *)
(*   - config.py  Config (instruction history store)                       *)
(*                                                                         *)
(* Representation of strings.  The code inspects track identifiers only    *)
(* through '-' (split('-'), "'-' in", endswith('-orig'), endswith('-p'))   *)
(* and equality.  A Python string is therefore represented by the tuple    *)
(* of its hyphen-free segments, i.e. by s.split('-'):                      *)
(*     "en" = <<"en">>   "en-orig" = <<"en","orig">>   "" = <<"">>         *)
(* The representation is a bijection (split/join), so concatenation with   *)
(* "-orig" appends the segment "orig", and a string ends in "-" + p        *)
(* exactly when it is strictly longer than p and its last segments are     *)
(* those of p.  None is the tuple of no segments.                          *)
(***************************************************************************)
EXTENDS Integers, Sequences, FiniteSets, TLC

VARIABLES
    available_subs,   \* the track catalog: dict keys in iteration order
    language,         \* the caller's language preference (None, "" or a code)
    selected,         \* outcome of _select_language(available_subs, language)
    langs,            \* outcome of get_available_languages on the catalog
    instruction_history,        \* settings["instruction_history"], oldest first
    instruction_history_limit,  \* settings["instruction_history_limit"]
    history_type,     \* JSON type of settings["instruction_history"]
    loaded,           \* the persisted settings document read at construction
    now,              \* the wall clock read by datetime.now()
    lastOp,           \* the last history operation, its argument and pre-state
    useOrder,         \* contents added since the capacity was fixed, by last use
    onlyAdds,         \* only add operations have run since the capacity was fixed
    temp_files,       \* VideoProcessor.temp_files: the registered artifact paths
    files,            \* the transcript (.srt) files that exist on disk
    tmpdirs,          \* number of directories created by tempfile.mkdtemp()
    downloads,        \* number of transcript downloads requested (ydl.download)
    ai_calls,         \* number of invocations of the AI collaborator
    run,              \* the last process_video call: options, collaborators, pre-state
    result,           \* what the last process_video call returned or raised
    runs,             \* number of process_video calls made
    cleaned,          \* the last cleanup() call since the last run
    stopping,         \* ChapterTimecodeGUI.stopping
    gemini_started,   \* ChapterTimecodeGUI.gemini_started
    worker,           \* the thread running process_video_thread: position, locals
    queue,            \* callbacks posted with root.after(0, ...), oldest first
    ui,               \* the widgets: buttons, text areas, dialogs, window state
    dialog            \* the Previous Instructions dialog: its rows, the last click

langVars == <<available_subs, language, selected, langs>>

histVars == <<instruction_history, instruction_history_limit, history_type,
              loaded, now, lastOp, useOrder, onlyAdds>>

procVars == <<temp_files, files, tmpdirs, downloads, ai_calls>>

pipeVars == <<procVars, run, result, runs, cleaned>>

windowVars == <<stopping, gemini_started, worker, queue, ui>>

guiVars == <<windowVars, dialog>>

vars == <<langVars, histVars, pipeVars, guiVars>>

----------------------------------------------------------------------------
(* Bounds *)

MaxCatalog == 3      \* number of track identifiers in a catalog
MaxTime == 2         \* last tick of the wall clock
MaxRuns == 1         \* number of processing runs that are started

----------------------------------------------------------------------------
(* Strings *)

None == <<>>
EmptyStr == <<"">>

\* truthiness of an Optional[str]: None and "" are falsy
Truthy(s) == s # None /\ s # EmptyStr

\* lang.endswith('-orig')
EndsWithOrig(lang) == Len(lang) >= 2 /\ lang[Len(lang)] = "orig"

\* '-' in lang
HasHyphen(lang) == Len(lang) >= 2

\* lang.endswith(f'-{p}')
EndsWithDash(lang, p) ==
    /\ Len(p) >= 1
    /\ Len(lang) > Len(p)
    /\ SubSeq(lang, Len(lang) - Len(p) + 1, Len(lang)) = p

\* f"{p}-orig"
PlusOrig(p) == p \o <<"orig">>

\* lang[:-5] for a lang that ends in '-orig'
StripOrig(lang) == SubSeq(lang, 1, Len(lang) - 1)

\* lang.split('-')[0], as a string
FirstPart(lang) == <<lang[1]>>

\* key in dict
InSeq(x, s) == \E i \in 1..Len(s) : s[i] = x

\* code-point order of the segments used in the model
SegOrder == <<"", "de", "en", "orig", "xx", "yy">>

SegRank(a) == CHOOSE i \in 1..Len(SegOrder) : SegOrder[i] = a

\* Python's s < t or s = t on strings (no segment is a prefix of another, and
\* '-' sorts before every letter, so the order is segment-wise lexicographic)
RECURSIVE StrLeq(_, _)
StrLeq(s, t) ==
    IF s = <<>> THEN TRUE
    ELSE IF t = <<>> THEN FALSE
    ELSE IF s[1] = t[1] THEN StrLeq(Tail(s), Tail(t))
    ELSE SegRank(s[1]) < SegRank(t[1])

\* sorted(set(xs))
RECURSIVE SetToSortedSeq(_)
SetToSortedSeq(S) ==
    IF S = {} THEN <<>>
    ELSE LET m == CHOOSE x \in S : \A y \in S : StrLeq(x, y)
         IN  <<m>> \o SetToSortedSeq(S \ {m})

SortedSet(xs) == SetToSortedSeq({xs[i] : i \in 1..Len(xs)})

----------------------------------------------------------------------------
(* Outcomes of a call: a returned value or a raised exception.  The message *)
(* of an exception is the concatenation of the wrapper prefixes, the text   *)
(* and the formatted argument.                                              *)

NoCall == [kind |-> "none", value |-> None, cls |-> "", prefix |-> <<>>,
           text |-> "", arg |-> None]

Return(v) == [kind |-> "ok", value |-> v, cls |-> "", prefix |-> <<>>,
              text |-> "", arg |-> None]

Raise(c, t, a) == [kind |-> "raise", value |-> None, cls |-> c,
                   prefix |-> <<>>, text |-> t, arg |-> a]

\* raise ValueError(f"{p}{e}")
Wrap(p, e) == [e EXCEPT !.cls = "ValueError", !.prefix = <<p>> \o e.prefix]

----------------------------------------------------------------------------
(* core.py: language resolution *)

MAJOR_LANGUAGES == <<"en", "es", "fr", "de", "it", "pt",
                     "ru", "uk", "ja", "ko", "zh", "ar">>

\* the auto_candidates list of _select_language
AutoCandidates(subs, lang) ==
    SelectSeq(subs, LAMBDA lang_code :
        /\ HasHyphen(lang_code) /\ ~EndsWithOrig(lang_code)
        /\ Len(lang_code) = 2
        /\ (<<lang_code[1]>> = lang \/ <<lang_code[2]>> = lang))

\* plausible bug: the first candidate is returned whatever side matched
PickCandidateFirstOnly(auto_candidates, lang) == auto_candidates[1]

\* source_translations[0] if source_translations else auto_candidates[0]
PickCandidate(auto_candidates, lang) ==
    LET source_translations ==
            SelectSeq(auto_candidates, LAMBDA l : EndsWithDash(l, lang))
    IN  IF source_translations # <<>> THEN source_translations[1]
        ELSE auto_candidates[1]

\* plausible bug: no match falls back to the first key instead of raising
NoMatchFallsBack(subs, lang) ==
    IF subs # <<>> THEN Return(subs[1])
    ELSE Raise("IndexError", "list index out of range", None)

\* raise ValueError(f"Requested language '{language}' not found")
NoMatch(subs, lang) ==
    Raise("ValueError", "Requested language '{}' not found", lang)

\* plausible bug: the plain key is tried before the '-orig' key
SelectPreferredPlainFirst(subs, lang) ==
    IF InSeq(lang, subs) THEN Return(lang)
    ELSE IF InSeq(PlusOrig(lang), subs) THEN Return(PlusOrig(lang))
    ELSE LET auto_candidates == AutoCandidates(subs, lang)
         IN  IF auto_candidates # <<>>
             THEN Return(PickCandidate(auto_candidates, lang))
             ELSE NoMatch(subs, lang)

\* the branch of _select_language for a given preference
SelectPreferred(subs, lang) ==
    IF InSeq(PlusOrig(lang), subs) THEN Return(PlusOrig(lang))
    ELSE IF InSeq(lang, subs) THEN Return(lang)
    ELSE LET auto_candidates == AutoCandidates(subs, lang)
         IN  IF auto_candidates # <<>>
             THEN Return(PickCandidate(auto_candidates, lang))
             ELSE NoMatch(subs, lang)

\* plausible bug: the catalog is scanned for a major language, in catalog
\* order, instead of the priority list being scanned for a key
FirstMajorCatalogOrder(majors, available_langs) ==
    LET hits == SelectSeq(available_langs, LAMBDA l :
                    \E k \in 1..Len(majors) : <<majors[k]>> = l)
    IN  IF hits # <<>> THEN hits[1] ELSE None

\* the first major language that is a key, or None
RECURSIVE FirstMajor(_, _)
FirstMajor(majors, available_langs) ==
    IF majors = <<>> THEN None
    ELSE IF InSeq(<<majors[1]>>, available_langs) THEN <<majors[1]>>
    ELSE FirstMajor(Tail(majors), available_langs)

\* plausible bug: major languages are tried before the original tracks
SelectAutoMajorFirst(subs) ==
    LET available_langs == subs
        orig_langs == SelectSeq(available_langs, EndsWithOrig)
        major == FirstMajor(MAJOR_LANGUAGES, available_langs)
    IN  IF major # None THEN Return(major)
        ELSE IF orig_langs # <<>> THEN Return(orig_langs[1])
        ELSE IF available_langs # <<>> THEN Return(available_langs[1])
        ELSE Raise("IndexError", "list index out of range", None)

\* the automatic branch of _select_language
SelectAuto(subs) ==
    LET available_langs == subs
        orig_langs == SelectSeq(available_langs, EndsWithOrig)
        major == FirstMajor(MAJOR_LANGUAGES, available_langs)
    IN  IF orig_langs # <<>> THEN Return(orig_langs[1])
        ELSE IF major # None THEN Return(major)
        ELSE IF available_langs # <<>> THEN Return(available_langs[1])
        ELSE Raise("IndexError", "list index out of range", None)

\* plausible bug: when only the '-orig' variant of the preference is a key,
\* the preference is returned as given instead of the key
_select_language_as_given(subs, lang) ==
    IF Truthy(lang)
    THEN IF InSeq(PlusOrig(lang), subs) THEN Return(lang)
         ELSE SelectPreferred(subs, lang)
    ELSE SelectAuto(subs)

_select_language(subs, lang) ==
    IF Truthy(lang) THEN SelectPreferred(subs, lang) ELSE SelectAuto(subs)

----------------------------------------------------------------------------
(* core.py: classification of the catalog *)

\* first loop of get_available_languages: [orig_langs, regular_langs, covered]
RECURSIVE FirstLoop(_, _)
FirstLoop(subs, acc) ==
    IF subs = <<>> THEN acc
    ELSE LET lang == Head(subs) IN
         IF EndsWithOrig(lang)
         THEN FirstLoop(Tail(subs),
                  [acc EXCEPT !.orig_langs = Append(@, StripOrig(lang)),
                              !.covered_langs = @ \cup {StripOrig(lang)}])
         ELSE IF ~HasHyphen(lang)
         THEN FirstLoop(Tail(subs),
                  [acc EXCEPT !.regular_langs = Append(@, lang),
                              !.covered_langs = @ \cup {lang}])
         ELSE FirstLoop(Tail(subs), acc)

\* second loop: the auto-translated base languages not yet covered
RECURSIVE SecondLoop(_, _)
SecondLoop(subs, acc) ==
    IF subs = <<>> THEN acc
    ELSE LET lang == Head(subs) IN
         IF HasHyphen(lang) /\ ~EndsWithOrig(lang)
            /\ FirstPart(lang) \notin acc.covered_langs
         THEN SecondLoop(Tail(subs),
                  [acc EXCEPT !.auto_langs = Append(@, FirstPart(lang)),
                              !.covered_langs = @ \cup {FirstPart(lang)}])
         ELSE SecondLoop(Tail(subs), acc)

EmptyDict == [keys |-> {}, original |-> <<>>, standard |-> <<>>,
              auto_translated |-> <<>>]

\* the grouping of get_available_languages for a listed catalog
Classify(subs) ==
    IF subs = <<>> THEN EmptyDict
    ELSE LET acc0 == [orig_langs |-> <<>>, regular_langs |-> <<>>,
                      auto_langs |-> <<>>, covered_langs |-> {}]
             acc == SecondLoop(subs, FirstLoop(subs, acc0))
         IN  [keys |-> {"original", "standard", "auto_translated"},
              original |-> SortedSet(acc.orig_langs),
              standard |-> SortedSet(acc.regular_langs),
              auto_translated |-> SortedSet(acc.auto_langs)]

\* get_available_languages: the grouping of the listed catalog, or {} when
\* the transcript source raised (the exception is logged and swallowed)
get_available_languages(listing_ok, subs) ==
    IF listing_ok THEN Classify(subs) ELSE EmptyDict

----------------------------------------------------------------------------
(* config.py: instruction history store.  An instruction text is the tuple  *)
(* of its characters ("" is the empty tuple).                               *)

PreviewLen == 100
MinLimit == 1
MaxLimit == 50
DefaultLimit == 10

IsSpace(ch) == ch \in {" ", "\n", "\t"}

\* s.lstrip()
RECURSIVE LStrip(_)
LStrip(s) ==
    IF s # <<>> /\ IsSpace(Head(s)) THEN LStrip(Tail(s)) ELSE s

\* s.rstrip()
RECURSIVE RStrip(_)
RStrip(s) ==
    IF s # <<>> /\ IsSpace(s[Len(s)]) THEN RStrip(SubSeq(s, 1, Len(s) - 1))
    ELSE s

\* s.strip()
Strip(s) == RStrip(LStrip(s))

\* datetime.now().isoformat() at clock value t
IsoFormat(t) == [iso |-> t]

\* instruction[:100] + "..." if len(instruction) > 100 else instruction
Preview(instruction) ==
    IF Len(instruction) > PreviewLen
    THEN SubSeq(instruction, 1, PreviewLen) \o <<".", ".", ".">>
    ELSE instruction

\* xs[-n:] with Python's slice rules (-0 is 0, a start before the list is 0)
PyLast(xs, n) ==
    LET start == IF -n < 0 THEN (IF Len(xs) - n > 0 THEN Len(xs) - n ELSE 0)
                 ELSE (IF -n > Len(xs) THEN Len(xs) ELSE -n)
    IN  SubSeq(xs, start + 1, Len(xs))

\* xs.pop(i) for an index in range: the list without position i (0-based)
PopAt(xs, i) == SubSeq(xs, 1, i) \o SubSeq(xs, i + 2, Len(xs))

\* plausible bug: the search never finds the stored content
ExistingIndexNever(history, instruction) == -1

\* the index of the first entry with this content, or -1 (None)
ExistingIndex(history, instruction) ==
    IF \E i \in 1..Len(history) : history[i].content = instruction
    THEN (CHOOSE i \in 1..Len(history) :
             /\ history[i].content = instruction
             /\ \A j \in 1..(i - 1) : history[j].content # instruction) - 1
    ELSE -1

\* plausible bug: the timestamp is refreshed but the entry is not moved
PromoteInPlace(history, existing_index, t) ==
    [history EXCEPT ![existing_index + 1].timestamp = IsoFormat(t)]

\* move the existing entry to the end with a refreshed timestamp
Promote(history, existing_index, t) ==
    LET existing_entry == history[existing_index + 1]
    IN  Append(PopAt(history, existing_index),
               [existing_entry EXCEPT !.timestamp = IsoFormat(t)])

NewEntry(instruction, t) ==
    [content |-> instruction, timestamp |-> IsoFormat(t),
     preview |-> Preview(instruction)]

\* plausible bug: the oldest entries are kept instead of the most recent
TrimKeepsOldest(history, limit) ==
    IF Len(history) > limit
    THEN SubSeq(history, 1, IF limit > 0 THEN limit ELSE 0)
    ELSE history

\* if len(history) > limit: history = history[-limit:]
Trim(history, limit) ==
    IF Len(history) > limit THEN PyLast(history, limit) ELSE history

\* the history stored by add_instruction_to_history at clock value t
add_instruction_to_history(history, limit, instruction, t) ==
    IF Strip(instruction) = <<>> THEN history
    ELSE LET existing_index == ExistingIndex(history, instruction)
             updated == IF existing_index # -1
                        THEN Promote(history, existing_index, t)
                        ELSE Append(history, NewEntry(instruction, t))
         IN  Trim(updated, limit)

\* plausible bug: only the lower bound is enforced
ClampLowerOnly(limit) == IF limit < MinLimit THEN MinLimit ELSE limit

\* lines 340-343 of set_instruction_history_limit
Clamp(limit) ==
    IF limit < MinLimit THEN MinLimit
    ELSE IF limit > MaxLimit THEN MaxLimit
    ELSE limit

\* plausible bug: the new limit is stored but the history is not cleaned up
SetLimitNoCleanup(history, limit) ==
    [limit |-> Clamp(limit), history |-> history]

\* the settings stored by set_instruction_history_limit
set_instruction_history_limit(history, limit) ==
    LET clamped == Clamp(limit)
    IN  [limit |-> clamped,
         history |-> IF Len(history) > clamped
                     THEN PyLast(history, clamped) ELSE history]

\* plausible bug: the lower bound is not tested, so pop(-1) drops the last
DeleteNoLowerBound(history, index) ==
    IF index < Len(history)
    THEN IF index >= 0 THEN PopAt(history, index)
         ELSE IF -index <= Len(history)
              THEN PopAt(history, Len(history) + index)
              ELSE history
    ELSE history

\* the history stored by delete_instruction_from_history
delete_instruction_from_history(history, index) ==
    IF 0 <= index /\ index < Len(history) THEN PopAt(history, index)
    ELSE history

\* the content of an entry that has no 'content' key
MissingContent == <<"<no content>">>

\* what add_instruction_to_history raises, if anything: the search loop
\* iterates the stored value and reads entry["content"] up to the first match
AddOutcome(type, history, instruction) ==
    IF Strip(instruction) = <<>> THEN Return(None)
    ELSE IF type # "list"
    THEN Raise("TypeError", "'NoneType' object is not iterable", None)
    ELSE IF \E i \in 1..Len(history) :
               /\ history[i].content = MissingContent
               /\ \A j \in 1..(i - 1) : history[j].content # instruction
    THEN Raise("KeyError", "'content'", None)
    ELSE Return(None)

\* what set_instruction_history_limit raises after it stored the limit, and
\* what delete_instruction_from_history raises: len(history)
LenOutcome(type) ==
    IF type # "list"
    THEN Raise("TypeError", "object of type 'NoneType' has no len()", None)
    ELSE Return(None)

\* no settings file
NoDocument == [parses |-> FALSE, history_type |-> "list", history |-> <<>>,
               limit |-> DefaultLimit]

\* _load_settings: the defaults, updated with whatever a parsed document holds
_load_settings(doc) ==
    IF doc.parses
    THEN [history_type |-> doc.history_type, history |-> doc.history,
          limit |-> doc.limit]
    ELSE [history_type |-> "list", history |-> <<>>, limit |-> DefaultLimit]

LongText == [i \in 1..(PreviewLen + 1) |-> "x"]

\* texts the user can submit: empty, blank, short ones and an over-long one
Instructions == { <<>>, <<" ">>, <<"a">>, <<"b">>, <<"c">>,
                  LongText }

LimitInputs == { 0, 1, 2, 3, 51 }

NoOp == [op |-> "none", arg |-> <<>>, n |-> 0, t |-> 0, pre |-> <<>>,
         preLimit |-> 0, raised |-> NoCall]

\* the state of the operations' ghosts when nothing has run
HistFresh ==
    /\ now = 0
    /\ lastOp = NoOp
    /\ useOrder = <<>>
    /\ onlyAdds = TRUE

\* the default settings of _load_settings
HistDefaults ==
    /\ loaded = NoDocument
    /\ instruction_history = _load_settings(loaded).history
    /\ instruction_history_limit = _load_settings(loaded).limit
    /\ history_type = _load_settings(loaded).history_type
    /\ HistFresh

\* contents by order of last use, after this add
Used(order, instruction) ==
    IF Strip(instruction) = <<>> THEN order
    ELSE Append(SelectSeq(order, LAMBDA c : c # instruction), instruction)

AddInstruction(instruction) ==
    LET raised == AddOutcome(history_type, instruction_history, instruction)
    IN  /\ instruction_history' =
               IF raised.kind = "raise" THEN instruction_history
               ELSE add_instruction_to_history(instruction_history,
                        instruction_history_limit, instruction, now)
        /\ lastOp' = [op |-> "add", arg |-> instruction, n |-> 0, t |-> now,
                      pre |-> instruction_history,
                      preLimit |-> instruction_history_limit,
                      raised |-> raised]
        /\ useOrder' = IF onlyAdds THEN Used(useOrder, instruction) ELSE <<>>
        /\ UNCHANGED <<instruction_history_limit, history_type, loaded, now,
                       onlyAdds>>

SetHistoryLimit(limit) ==
    LET stored == set_instruction_history_limit(instruction_history, limit)
        raised == LenOutcome(history_type)
    IN  /\ instruction_history_limit' = stored.limit
        /\ instruction_history' =
               IF raised.kind = "raise" THEN instruction_history
               ELSE stored.history
        /\ lastOp' = [op |-> "setlimit", arg |-> <<>>, n |-> limit, t |-> now,
                      pre |-> instruction_history,
                      preLimit |-> instruction_history_limit,
                      raised |-> raised]
        /\ onlyAdds' = (onlyAdds /\ useOrder = <<>>)
        /\ useOrder' = IF onlyAdds' THEN useOrder ELSE <<>>
        /\ UNCHANGED <<history_type, loaded, now>>

DeleteInstruction(index) ==
    LET raised == LenOutcome(history_type)
    IN  /\ instruction_history' =
               IF raised.kind = "raise" THEN instruction_history
               ELSE delete_instruction_from_history(instruction_history,
                                                    index)
        /\ lastOp' = [op |-> "delete", arg |-> <<>>, n |-> index, t |-> now,
                      pre |-> instruction_history,
                      preLimit |-> instruction_history_limit,
                      raised |-> raised]
        /\ onlyAdds' = (onlyAdds /\ instruction_history' = instruction_history)
        /\ useOrder' = IF onlyAdds' THEN useOrder ELSE <<>>
        /\ UNCHANGED <<instruction_history_limit, history_type, loaded, now>>

\* the wall clock advances between operations
Tick ==
    /\ now < MaxTime
    /\ now' = now + 1
    /\ UNCHANGED <<instruction_history, instruction_history_limit,
                   history_type, loaded, lastOp, useOrder, onlyAdds>>

----------------------------------------------------------------------------
(* core.py: the processing pipeline.  The collaborators (yt-dlp, the file   *)
(* system, Gemini) are the environment: env says how each of their calls    *)
(* behaves during one run.                                                  *)

UserDir == [kind |-> "user", id |-> 0]       \* options.output_dir
TmpDir(k) == [kind |-> "tmp", id |-> k]      \* the k-th tempfile.mkdtemp()
NoDir == [kind |-> "none", id |-> 0]

\* os.path.join(dir, '<title>.<lang>.srt')
SrtPath(dir, name) == [dir |-> dir, name |-> name]
NoPath == SrtPath(NoDir, None)

\* the text read from a transcript file
ContentOf(path) == <<"transcript">> \o path.name

SubtitleInfo(lang, file_path, content) ==
    [language |-> lang, file_path |-> file_path, content |-> content]

NoInfo == SubtitleInfo(None, NoPath, None)

NoResult == [kind |-> "none", info |-> NoInfo, gemini_response |-> None,
             cls |-> "", prefix |-> <<>>, text |-> "", arg |-> None]

Returned(info, response) == [NoResult EXCEPT !.kind = "ok", !.info = info,
                             !.gemini_response = response]

\* the exception e raised to the caller
Raised(e) == [NoResult EXCEPT !.kind = "raise", !.cls = e.cls,
              !.prefix = e.prefix, !.text = e.text, !.arg = e.arg]

\* list(Path(output_dir).glob('*.srt'))
GlobSrt(fs, dir) == {f \in fs : f.dir = dir}

\* lines 256-272 of download_subtitles: list the tracks and select one
CheckSubtitles(lang, env) ==
    IF ~env.listing_ok
    THEN Wrap("Error checking subtitles: ",
              Raise("DownloadError", env.list_text, None))
    ELSE IF env.subs = <<>>
    THEN Wrap("Error checking subtitles: ",
              Raise("ValueError", "No auto-generated subtitles found", None))
    ELSE LET sel == _select_language(env.subs, lang)
         IN  IF sel.kind = "raise"
             THEN Wrap("Error checking subtitles: ", sel)
             ELSE sel

\* download_subtitles: the possible outcomes [proc, out] of one call on the
\* processor state proc; the glob order is the file system's
download_subtitles(proc, lang, output_dir, env) ==
    LET mk == output_dir = None
        dir == IF mk THEN TmpDir(proc.tmpdirs + 1) ELSE UserDir
        p0 == [proc EXCEPT !.tmpdirs = IF mk THEN @ + 1 ELSE @]
        chk == CheckSubtitles(lang, env)
    IN  IF chk.kind = "raise" THEN { [proc |-> p0, out |-> Raised(chk)] }
        ELSE
        LET selected_lang == chk.value
            p1 == [p0 EXCEPT !.downloads = @ + 1]
        IN  IF env.fetch = "fail"
            THEN { [proc |-> p1,
                    out |-> Raised(Wrap("Error downloading subtitles: ",
                               Raise("DownloadError", env.fetch_text, None)))] }
            ELSE
            LET p2 == [p1 EXCEPT !.files =
                          IF env.fetch = "ok"
                          THEN @ \cup {SrtPath(dir, selected_lang)} ELSE @]
                subtitle_files == GlobSrt(p2.files, dir)
            IN  IF subtitle_files = {}
                THEN { [proc |-> p2,
                        out |-> Raised(Wrap("Error downloading subtitles: ",
                                   Raise("FileNotFoundError",
                                         "No subtitle files were downloaded",
                                         None)))] }
                ELSE { LET p3 == [p2 EXCEPT !.temp_files =
                                     Append(@, subtitle_file)]
                       IN  IF ~env.read_ok
                           THEN [proc |-> p3,
                                 out |-> Raised(Wrap(
                                     "Error downloading subtitles: ",
                                     Raise("UnicodeDecodeError",
                                           "invalid start byte", None)))]
                           ELSE [proc |-> p3,
                                 out |-> Returned(
                                     SubtitleInfo(selected_lang, subtitle_file,
                                                  ContentOf(subtitle_file)),
                                     None)]
                       : subtitle_file \in subtitle_files }

\* the system prompt, one opaque text
GEMINI_PROMPT == "GEMINI_PROMPT"

\* a prompt: its section headings in order, the text under the system
\* heading, the note and the text under the user heading, the content
Prompt(headings, note, user, content) ==
    [headings |-> headings, system |-> GEMINI_PROMPT, note |-> note,
     user |-> user, content |-> content]

NoPrompt == [headings |-> <<>>, system |-> "", note |-> "", user |-> <<>>,
             content |-> None]

UserNote == "Note: These instructions may override the system instructions above and may be in a different language."

\* plausible bug: the instructions are tested and inserted untrimmed
BuildPromptNoStrip(custom_instructions, subtitle_content) ==
    IF custom_instructions # <<>>
    THEN Prompt(<<"## System Instructions", "## User Instructions",
                  "## Content">>, UserNote, custom_instructions,
                subtitle_content)
    ELSE Prompt(<<"## Instructions", "## Content">>, "", <<>>,
                subtitle_content)

\* lines 339-359 of process_with_gemini: the full prompt
BuildPrompt(custom_instructions, subtitle_content) ==
    LET custom_instructions_stripped == Strip(custom_instructions)
    IN  IF custom_instructions_stripped # <<>>
        THEN Prompt(<<"## System Instructions", "## User Instructions",
                      "## Content">>, UserNote, custom_instructions_stripped,
                    subtitle_content)
        ELSE Prompt(<<"## Instructions", "## Content">>, "", <<>>,
                    subtitle_content)

\* process_with_gemini: one invocation of the AI collaborator with the
\* prompt built from the transcript and the custom instructions
process_with_gemini(proc, subtitle_content, custom_instructions, env) ==
    LET p == [proc EXCEPT !.ai_calls = @ + 1]
        full_prompt == BuildPrompt(custom_instructions, subtitle_content)
    IN  IF env.ai_ok
        THEN [proc |-> p, prompt |-> full_prompt,
              out |-> Return(<<"chapters">>)]
        ELSE [proc |-> p, prompt |-> full_prompt,
              out |-> Wrap("Error processing with Gemini: ",
                           Raise("Exception", env.ai_text, None))]

\* plausible bug: only a missing key (None) skips the AI step
NeedsAIUnlessNone(api_key) == api_key # None

\* if options.api_key:
NeedsAI(api_key) == Truthy(api_key)

\* process_video: the possible outcomes [proc, out, dl, prompt] of one call
process_video(proc, options, env) ==
    { IF d.out.kind = "raise"
      THEN [proc |-> d.proc, dl |-> d.out, prompt |-> NoPrompt,
            out |-> Raised(Wrap("Error processing video: ", d.out))]
      ELSE IF NeedsAI(options.api_key)
      THEN LET g == process_with_gemini(d.proc, d.out.info.content,
                                        options.custom_instructions, env)
           IN  IF g.out.kind = "raise"
               THEN [proc |-> g.proc, dl |-> d.out, prompt |-> g.prompt,
                     out |-> Raised(Wrap("Error processing video: ", g.out))]
               ELSE [proc |-> g.proc, dl |-> d.out, prompt |-> g.prompt,
                     out |-> Returned(d.out.info, g.out.value)]
      ELSE [proc |-> d.proc, dl |-> d.out, prompt |-> NoPrompt,
            out |-> Returned(d.out.info, None)]
      : d \in download_subtitles(proc, options.language, options.output_dir,
                                 env) }

\* the paths in the registry
Registered(proc) == {proc.temp_files[i] : i \in 1..Len(proc.temp_files)}

\* plausible bug: os.remove is not guarded, so the first failing deletion
\* propagates: later paths are not attempted and the registry is not cleared
CleanupNoTry(proc, failing) ==
    LET bad == {i \in 1..Len(proc.temp_files) :
                   /\ proc.temp_files[i] \in proc.files
                   /\ proc.temp_files[i] \in failing}
    IN  IF bad = {}
        THEN [proc |-> [proc EXCEPT !.files = @ \ Registered(proc),
                                    !.temp_files = <<>>],
              out |-> Return(None)]
        ELSE LET k == CHOOSE i \in bad : \A j \in bad : i <= j
             IN  [proc |-> [proc EXCEPT !.files =
                              @ \ {proc.temp_files[i] : i \in 1..(k - 1)}],
                  out |-> Raise("OSError", "Permission denied", None)]

\* cleanup: the outcome [proc, out] of one call.  Every registered file that
\* exists is removed unless os.remove fails for it (failing); the failure is
\* logged; the registry is cleared
cleanup(proc, failing) ==
    [proc |-> [proc EXCEPT !.files = @ \ (Registered(proc) \ failing),
                           !.temp_files = <<>>],
     out |-> Return(None)]

----------------------------------------------------------------------------
(* Inputs of the pipeline *)

PipeCatalogs == { <<>>, << <<"en">> >>, << <<"de", "orig">>, <<"en">> >>,
                  << <<"xx", "en">> >> }

PipeLanguages == { None, <<"en">>, <<"zz">> }

ApiKeys == { None, EmptyStr, <<"key">> }

\* the collaborator's own error texts are arbitrary
ListErrors == { "HTTP Error 404: Not Found",
                "No auto-generated subtitles found" }

CustomInstructions == { <<>>, <<" ">>, <<" ", "a">> }

Options == [language : PipeLanguages, api_key : ApiKeys,
            output_dir : {None, <<"out">>},
            custom_instructions : CustomInstructions]

Envs == [listing_ok : BOOLEAN, subs : PipeCatalogs, list_text : ListErrors,
         fetch : {"ok", "nofile", "fail"},
         fetch_text : {"Unable to download video subtitles"},
         read_ok : BOOLEAN, ai_ok : BOOLEAN,
         ai_text : {"429 Resource exhausted"}]

\* inputs that the run does not consult are fixed
CanonicalEnv(options, env) ==
    LET checked == CheckSubtitles(options.language, env).kind = "ok"
        fetched == checked /\ env.fetch # "fail"
    IN  /\ (~(fetched /\ env.read_ok /\ NeedsAI(options.api_key))
              => options.custom_instructions = <<>>)
        /\ (env.listing_ok => env.list_text = "HTTP Error 404: Not Found")
        /\ (~env.listing_ok => env.subs = <<>>)
        /\ (~checked => env.fetch = "ok")
        /\ (~fetched => env.read_ok)
        /\ (~(fetched /\ env.read_ok /\ NeedsAI(options.api_key))
              => env.ai_ok)

OldSrt == SrtPath(UserDir, <<"old">>)

NoRun == [called |-> FALSE,
          options |-> [language |-> None, api_key |-> None,
                       output_dir |-> None, custom_instructions |-> <<>>],
          prompt |-> NoPrompt,
          env |-> [listing_ok |-> TRUE, subs |-> <<>>,
                   list_text |-> "HTTP Error 404: Not Found",
                   fetch |-> "ok",
                   fetch_text |-> "Unable to download video subtitles",
                   read_ok |-> TRUE, ai_ok |-> TRUE,
                   ai_text |-> "429 Resource exhausted"],
          dl |-> NoResult,
          pre |-> [temp_files |-> <<>>, files |-> {}, tmpdirs |-> 0,
                   downloads |-> 0, ai_calls |-> 0]]

Proc == [temp_files |-> temp_files, files |-> files, tmpdirs |-> tmpdirs,
         downloads |-> downloads, ai_calls |-> ai_calls]

SetProc(p) ==
    /\ temp_files' = p.temp_files
    /\ files' = p.files
    /\ tmpdirs' = p.tmpdirs
    /\ downloads' = p.downloads
    /\ ai_calls' = p.ai_calls

\* the last cleanup() since the last run: the processor before it, the paths
\* whose deletion failed, its outcome, and whether a cleanup came right before
NoClean == [called |-> FALSE, again |-> FALSE, pre |-> NoRun.pre,
            failing |-> {}, out |-> NoCall, running |-> FALSE,
            attempted |-> {}, dropped |-> {}]

\* the record of one whole cleanup() call on the processor pre
Cleaned(again, pre, failing, out) ==
    [called |-> TRUE, again |-> again, pre |-> pre, failing |-> failing,
     out |-> out, running |-> FALSE, attempted |-> Registered(pre),
     dropped |-> Registered(pre)]

\* a fresh VideoProcessor; nothing has been called
PipeFresh ==
    /\ cleaned = NoClean
    /\ temp_files = <<>>
    /\ tmpdirs = 0
    /\ downloads = 0
    /\ ai_calls = 0
    /\ run = NoRun
    /\ result = NoResult
    /\ runs = 0

PipeIdle == PipeFresh /\ files = {}

----------------------------------------------------------------------------
(* gui.py: the window.  The UI thread runs the button handlers and the      *)
(* callbacks posted with root.after, one at a time; the worker thread runs  *)
(* process_video_thread.  The progress log is left out.                     *)

\* a callback posted with root.after(0, ...) and its arguments
Event(kind, info, response, error) ==
    [kind |-> kind, info |-> info, response |-> response, error |-> error]

\* the form fields read when Process is clicked
GuiOptions == [language : {None}, api_key : {EmptyStr, <<"key">>},
               output_dir : {None, <<"out">>},
               custom_instructions : {<<>>, <<"a">>},
               keep_files : BOOLEAN]

\* how the collaborators behave during one run of the worker
GuiEnvs ==
    { env \in Envs :
        /\ env.listing_ok /\ env.read_ok
        /\ env.list_text = "HTTP Error 404: Not Found"
        /\ env.subs \in { <<>>, << <<"en">> >> }
        /\ env.fetch \in {"ok", "fail"}
        /\ (env.subs = <<>> => env.fetch = "ok")
        /\ (env.subs = <<>> \/ env.fetch = "fail") => env.ai_ok }

\* no worker thread has been started
NoWorker == [pc |-> "idle",
             options |-> [language |-> None, api_key |-> EmptyStr,
                          output_dir |-> None, custom_instructions |-> <<>>,
                          keep_files |-> FALSE],
             env |-> NoRun.env, info |-> NoInfo, check2 |-> "none",
             ai_before |-> 0, stop_accepted |-> FALSE]

\* the Previous Instructions dialog is not shown
NoDialog == [open |-> FALSE, rows |-> <<>>, clicked |-> <<>>]

\* the window after setup_variables and create_widgets
GuiIdle ==
    /\ stopping = FALSE
    /\ gemini_started = FALSE
    /\ worker = NoWorker
    /\ queue = <<>>
    /\ ui = [process_btn |-> "normal", stop_btn |-> "disabled",
             has_processor |-> FALSE, subtitles_text |-> None,
             chapters_text |-> None, status |-> "Ready", dialog |-> "",
             error |-> NoResult, finished |-> FALSE, closing |-> FALSE,
             closed |-> FALSE, finished_runs |-> 0]
    /\ dialog = NoDialog

----------------------------------------------------------------------------
(* Inputs of the language resolver *)

TrackIds == {
    <<"en">>, <<"de">>, <<"xx">>, <<"yy">>,
    <<"en", "orig">>, <<"de", "orig">>,
    <<"en", "de">>, <<"de", "en">>, <<"xx", "en">>, <<"en", "xx">>,
    <<"xx", "yy">>, <<"xx", "de", "en">>, <<"en", "de", "orig">> }

Preferences == { None, EmptyStr, <<"en">>, <<"de">>, <<"xx">>, <<"zz">>,
                 <<"en", "de">> }

Catalogs ==
    { s \in UNION { [1..n -> TrackIds] : n \in 0..MaxCatalog } :
        \A i, j \in 1..Len(s) : i # j => s[i] # s[j] }

\* gui.py update_language_combo: the dialog shown for a classification
update_language_combo(ret) ==
    IF ret.keys = {} THEN "Warning: No subtitles available for this video."
    ELSE "Languages Available"

NoLangs == [called |-> FALSE, listing_ok |-> TRUE, ret |-> EmptyDict,
            dialog |-> ""]

InitLang ==
    /\ available_subs \in Catalogs
    /\ language \in Preferences
    /\ selected = NoCall
    /\ langs = NoLangs
    /\ HistDefaults
    /\ PipeIdle
    /\ GuiIdle

SelectLanguage ==
    /\ selected = NoCall
    /\ selected' = _select_language(available_subs, language)
    /\ UNCHANGED <<available_subs, language, langs, histVars, pipeVars, guiVars>>

GetAvailableLanguages ==
    /\ ~langs.called
    /\ \E listing_ok \in BOOLEAN :
         LET ret == get_available_languages(listing_ok, available_subs)
         IN  langs' = [called |-> TRUE, listing_ok |-> listing_ok,
                       ret |-> ret, dialog |-> update_language_combo(ret)]
    /\ UNCHANGED <<available_subs, language, selected, histVars, pipeVars, guiVars>>

NextLang == SelectLanguage \/ GetAvailableLanguages

SpecLang == InitLang /\ [][NextLang]_vars

\* no language query is in progress
LangIdle ==
    /\ available_subs = <<>>
    /\ language = None
    /\ selected = NoCall
    /\ langs = NoLangs

InitHist == LangIdle /\ HistDefaults /\ PipeIdle /\ GuiIdle

NextHist ==
    \/ \E instruction \in Instructions :
          AddInstruction(instruction) /\ UNCHANGED <<langVars, pipeVars, guiVars>>
    \/ \E limit \in LimitInputs :
          SetHistoryLimit(limit) /\ UNCHANGED <<langVars, pipeVars, guiVars>>
    \/ \E index \in -1..Len(instruction_history) :
          DeleteInstruction(index) /\ UNCHANGED <<langVars, pipeVars, guiVars>>
    \/ Tick /\ UNCHANGED <<langVars, pipeVars, guiVars>>

SpecHist == InitHist /\ [][NextHist]_vars

----------------------------------------------------------------------------
(* The history store on top of a persisted settings document *)

EntryA == NewEntry(<<"a">>, 0)

\* a stored entry without its 'content' key
EntryNoContent == [EntryA EXCEPT !.content = MissingContent]

\* the settings file: missing or unparsable, or a JSON object whose history
\* is null or a list (some entries without 'content') and whose limit is an
\* integer
Documents ==
    {NoDocument}
    \cup [parses : {TRUE}, history_type : {"list"},
          history : { <<>>, <<EntryA>>, <<EntryNoContent>>,
                      <<EntryNoContent, EntryA>>, <<EntryA, EntryNoContent>> },
          limit : {0, DefaultLimit, MaxLimit + 1}]
    \cup [parses : {TRUE}, history_type : {"null"}, history : {<<>>},
          limit : {0, DefaultLimit, MaxLimit + 1}]

LoadInstructions == { <<>>, <<"a">>, <<"b">> }

LoadLimits == { 0, 2 }

\* Config.__init__: the settings are what _load_settings returns
InitLoad ==
    /\ LangIdle
    /\ PipeIdle
    /\ GuiIdle
    /\ loaded \in Documents
    /\ instruction_history = _load_settings(loaded).history
    /\ instruction_history_limit = _load_settings(loaded).limit
    /\ history_type = _load_settings(loaded).history_type
    /\ HistFresh

NextLoad ==
    \/ \E instruction \in LoadInstructions :
          AddInstruction(instruction) /\ UNCHANGED <<langVars, pipeVars, guiVars>>
    \/ \E limit \in LoadLimits :
          SetHistoryLimit(limit) /\ UNCHANGED <<langVars, pipeVars, guiVars>>
    \/ \E index \in 0..Len(instruction_history) :
          DeleteInstruction(index) /\ UNCHANGED <<langVars, pipeVars, guiVars>>

SpecLoad == InitLoad /\ [][NextLoad]_vars

\* the caller's output directory may already hold a transcript file
InitPipe ==
    /\ LangIdle
    /\ HistDefaults
    /\ PipeFresh
    /\ GuiIdle
    /\ files \in { {}, {OldSrt} }

ProcessVideo ==
    /\ runs < MaxRuns
    /\ \E options \in Options, env \in Envs :
         /\ CanonicalEnv(options, env)
         /\ \E r \in process_video(Proc, options, env) :
              /\ SetProc(r.proc)
              /\ result' = r.out
              /\ run' = [called |-> TRUE, options |-> options, env |-> env,
                         prompt |-> r.prompt, dl |-> r.dl, pre |-> Proc]
    /\ runs' = runs + 1
    /\ cleaned' = NoClean
    /\ UNCHANGED <<langVars, histVars, guiVars>>

Cleanup ==
    /\ \E failing \in SUBSET Registered(Proc) :
         LET c == cleanup(Proc, failing)
         IN  /\ SetProc(c.proc)
             /\ cleaned' = Cleaned(cleaned.called, Proc, failing, c.out)
    /\ UNCHANGED <<run, result, runs, langVars, histVars, guiVars>>

NextPipe == ProcessVideo \/ Cleanup

SpecPipe == InitPipe /\ [][NextPipe]_vars

----------------------------------------------------------------------------
(* The window: handlers of the UI thread and steps of the worker thread *)

\* processing_thread.is_alive()
ThreadAlive == worker.pc \notin {"idle", "done"}

Post(e) == queue' = Append(queue, e)

\* the Process button: process_video
U_ProcessClick ==
    /\ ~ui.closed /\ ~ui.closing
    /\ ui.process_btn = "normal"
    /\ runs < MaxRuns
    /\ \E options \in GuiOptions, env \in GuiEnvs :
         IF ~Truthy(options.api_key)
         THEN /\ ui' = [ui EXCEPT !.dialog =
                                     "Please enter your Gemini API key."]
              /\ UNCHANGED <<worker, runs>>
         ELSE /\ ui' = [ui EXCEPT !.subtitles_text = None,
                                  !.chapters_text = None,
                                  !.process_btn = "disabled",
                                  !.stop_btn = "normal",
                                  !.finished = FALSE]
              /\ worker' = [NoWorker EXCEPT !.pc = "start",
                                            !.options = options, !.env = env]
              /\ runs' = runs + 1
    /\ UNCHANGED <<stopping, gemini_started, queue, procVars, run, result,
                   cleaned, langVars, histVars, dialog>>

\* lines 777-800: reset the flag, create the processor, save the instructions
W_Start ==
    /\ ~ui.closed
    /\ worker.pc = "start"
    /\ stopping' = FALSE
    /\ temp_files' = <<>>
    /\ ui' = [ui EXCEPT !.has_processor = TRUE]
    /\ cleaned' = NoClean
    /\ IF worker.options.custom_instructions # <<>>
       THEN AddInstruction(worker.options.custom_instructions)
       ELSE UNCHANGED histVars
    /\ worker' = [worker EXCEPT !.pc = "check1", !.ai_before = ai_calls]
    /\ UNCHANGED <<files, tmpdirs, downloads, ai_calls, gemini_started, queue,
                   run, result, runs, langVars, dialog>>

\* plausible bug: the flag is not consulted
StoppingRequestedNever(flag) == FALSE

\* if self.stopping: return
StoppingRequested(flag) == flag

\* lines 802-804: the check before the download
W_Check1 ==
    /\ ~ui.closed
    /\ worker.pc = "check1"
    /\ worker' = [worker EXCEPT !.pc = IF StoppingRequested(stopping)
                                       THEN "finally" ELSE "download"]
    /\ UNCHANGED <<stopping, gemini_started, queue, ui, pipeVars, langVars,
                   histVars, dialog>>

\* the message of show_error for the exception e of the worker
ErrorEvent(e) ==
    Event("show_error", NoInfo, None,
          Raised(Wrap("Error processing video: ", e)))

\* lines 806-811: download_subtitles
W_Download ==
    /\ ~ui.closed
    /\ worker.pc = "download"
    /\ \E d \in download_subtitles(Proc, worker.options.language,
                                    worker.options.output_dir, worker.env) :
         /\ SetProc(d.proc)
         /\ IF d.out.kind = "raise"
            THEN /\ Post(ErrorEvent(d.out))
                 /\ worker' = [worker EXCEPT !.pc = "finally"]
            ELSE /\ UNCHANGED queue
                 /\ worker' = [worker EXCEPT !.pc = "check2",
                                             !.info = d.out.info]
    /\ UNCHANGED <<stopping, gemini_started, ui, run, result, runs, cleaned,
                   langVars, histVars, dialog>>

\* lines 813-819: the check after the download, then show_subtitles is posted
W_Check2 ==
    /\ ~ui.closed
    /\ worker.pc = "check2"
    /\ IF StoppingRequested(stopping)
       THEN /\ worker' = [worker EXCEPT !.pc = "finally",
                              !.check2 = IF stopping THEN "stopped"
                                         ELSE "passed"]
            /\ UNCHANGED queue
       ELSE /\ worker' = [worker EXCEPT !.pc = "gemini_flag",
                              !.check2 = IF stopping THEN "stopped"
                                         ELSE "passed"]
            /\ Post(Event("show_subtitles", worker.info, None, NoResult))
    /\ UNCHANGED <<stopping, gemini_started, ui, pipeVars, langVars,
                   histVars, dialog>>

\* lines 822-828: gemini_started is set, the Stop button is to be disabled
W_GeminiFlag ==
    /\ ~ui.closed
    /\ worker.pc = "gemini_flag"
    /\ IF NeedsAI(worker.options.api_key)
       THEN /\ gemini_started' = TRUE
            /\ Post(Event("disable_stop", NoInfo, None, NoResult))
            /\ worker' = [worker EXCEPT !.pc = "gemini"]
       ELSE /\ Post(Event("show_results", worker.info, None, NoResult))
            /\ worker' = [worker EXCEPT !.pc = "finally"]
            /\ UNCHANGED gemini_started
    /\ UNCHANGED <<stopping, ui, pipeVars, langVars, histVars, dialog>>

\* lines 830-842: process_with_gemini, then the results are posted
W_Gemini ==
    /\ ~ui.closed
    /\ worker.pc = "gemini"
    /\ LET g == process_with_gemini(Proc, worker.info.content,
                                    worker.options.custom_instructions,
                                    worker.env)
       IN  /\ SetProc(g.proc)
           /\ IF g.out.kind = "raise"
              THEN Post(ErrorEvent(g.out))
              ELSE queue' = queue \o
                     << Event("show_chapters", NoInfo, g.out.value, NoResult),
                        Event("show_results", worker.info, g.out.value,
                              NoResult) >>
    /\ worker' = [worker EXCEPT !.pc = "finally"]
    /\ UNCHANGED <<stopping, gemini_started, ui, run, result, runs, cleaned,
                   langVars, histVars, dialog>>

\* line 847: finally, processing_finished is posted
W_Finally ==
    /\ ~ui.closed
    /\ worker.pc = "finally"
    /\ Post(Event("processing_finished", NoInfo, None, NoResult))
    /\ worker' = [worker EXCEPT !.pc = "exit"]
    /\ UNCHANGED <<stopping, gemini_started, ui, pipeVars, langVars,
                   histVars, dialog>>

\* the thread function returns
W_Exit ==
    /\ ~ui.closed
    /\ worker.pc = "exit"
    /\ worker' = [worker EXCEPT !.pc = "done"]
    /\ UNCHANGED <<stopping, gemini_started, queue, ui, pipeVars, langVars,
                   histVars, dialog>>

\* stop_processing: the flag, the dialog and the status it leaves
stop_processing(alive, started, flag, window) ==
    IF ~alive THEN [stopping |-> flag, accepted |-> FALSE, ui |-> window]
    ELSE IF started
    THEN [stopping |-> flag, accepted |-> FALSE,
          ui |-> [window EXCEPT !.dialog = "Cannot stop processing after Gemini API request has been sent. The operation will complete."]]
    ELSE [stopping |-> TRUE, accepted |-> TRUE,
          ui |-> [window EXCEPT !.status = "Stopping..."]]

\* the Stop button
U_StopClick ==
    /\ ~ui.closed /\ ~ui.closing
    /\ ui.stop_btn = "normal"
    /\ LET s == stop_processing(ThreadAlive, gemini_started, stopping, ui)
       IN  /\ stopping' = s.stopping
           /\ ui' = s.ui
           /\ worker' = [worker EXCEPT !.stop_accepted = @ \/ s.accepted]
    /\ UNCHANGED <<gemini_started, queue, pipeVars, langVars, histVars, dialog>>

\* the UI thread runs the oldest posted callback of this kind
Dispatch(kind) ==
    /\ ~ui.closed /\ ~ui.closing
    /\ queue # <<>>
    /\ Head(queue).kind = kind
    /\ queue' = Tail(queue)

D_ShowSubtitles ==
    /\ Dispatch("show_subtitles")
    /\ ui' = [ui EXCEPT !.subtitles_text = Head(queue).info.content]
    /\ UNCHANGED <<stopping, gemini_started, worker, pipeVars, langVars,
                   histVars, dialog>>

D_DisableStop ==
    /\ Dispatch("disable_stop")
    /\ ui' = [ui EXCEPT !.stop_btn = "disabled"]
    /\ UNCHANGED <<stopping, gemini_started, worker, pipeVars, langVars,
                   histVars, dialog>>

D_ShowChapters ==
    /\ Dispatch("show_chapters")
    /\ ui' = [ui EXCEPT !.chapters_text = Head(queue).response]
    /\ UNCHANGED <<stopping, gemini_started, worker, pipeVars, langVars,
                   histVars, dialog>>

D_ShowResults ==
    /\ Dispatch("show_results")
    /\ ui' = [ui EXCEPT
                !.subtitles_text = Head(queue).info.content,
                !.chapters_text = IF Head(queue).response # None
                                  THEN Head(queue).response ELSE @,
                !.status = "Processing completed successfully!"]
    /\ UNCHANGED <<stopping, gemini_started, worker, pipeVars, langVars,
                   histVars, dialog>>

D_ShowError ==
    /\ Dispatch("show_error")
    /\ ui' = [ui EXCEPT !.error = Head(queue).error]
    /\ UNCHANGED <<stopping, gemini_started, worker, pipeVars, langVars,
                   histVars, dialog>>

\* plausible bug: the Process button is not enabled again
processing_finished_keeps_button(window) ==
    [window EXCEPT !.stop_btn = "disabled", !.status = "Ready",
                   !.finished = TRUE, !.finished_runs = @ + 1]

\* processing_finished: what it does to the widgets
processing_finished(window) ==
    [window EXCEPT !.process_btn = "normal", !.stop_btn = "disabled",
                   !.status = "Ready", !.finished = TRUE,
                   !.finished_runs = @ + 1]

\* processing_finished: the buttons, the cleanup unless stopping, the flags
D_ProcessingFinished ==
    /\ Dispatch("processing_finished")
    /\ ui' = processing_finished(ui)
    /\ IF ui.has_processor /\ ~stopping
       THEN \E failing \in SUBSET Registered(Proc) :
               LET c == cleanup(Proc, failing)
               IN  /\ SetProc(c.proc)
                   /\ cleaned' = Cleaned(cleaned.called, Proc, failing,
                                      c.out)
       ELSE UNCHANGED <<procVars, cleaned>>
    /\ stopping' = FALSE
    /\ gemini_started' = FALSE
    /\ UNCHANGED <<worker, run, result, runs, langVars, histVars, dialog>>

\* lines 124-130 of cleanup: the loop over the registry
RemoveRegistered(proc, failing) ==
    [proc EXCEPT !.files = @ \ (Registered(proc) \ failing)]

\* line 131 of cleanup: self.temp_files.clear()
ClearRegistry(proc) == [proc EXCEPT !.temp_files = <<>>]

\* the window is closed: on_closing up to the end of the loop of cleanup,
\* while the worker thread keeps running
U_Close ==
    /\ ~ui.closed /\ ~ui.closing
    /\ LET s == stop_processing(ThreadAlive, gemini_started, stopping, ui)
       IN  /\ stopping' = s.stopping
           /\ ui' = [s.ui EXCEPT !.closing = TRUE,
                                 !.closed = ~ui.has_processor]
           /\ worker' = [worker EXCEPT !.stop_accepted = @ \/ s.accepted]
    /\ IF ui.has_processor
       THEN \E failing \in SUBSET Registered(Proc) :
               /\ SetProc(RemoveRegistered(Proc, failing))
               /\ cleaned' = [NoClean EXCEPT !.again = cleaned.called,
                                             !.pre = Proc,
                                             !.failing = failing,
                                             !.running = TRUE,
                                             !.attempted = Registered(Proc)]
       ELSE UNCHANGED <<procVars, cleaned>>
    /\ UNCHANGED <<gemini_started, queue, run, result, runs, langVars,
                   histVars, dialog>>

\* on_closing from the last line of cleanup: the registry of the processor
\* being cleaned is cleared, the window is destroyed
U_CloseDone ==
    /\ ui.closing /\ ~ui.closed
    /\ ui' = [ui EXCEPT !.closed = TRUE]
    /\ IF cleaned.running
       THEN /\ SetProc(ClearRegistry(Proc))
            /\ cleaned' = [cleaned EXCEPT !.called = TRUE,
                                          !.running = FALSE,
                                          !.out = Return(None),
                                          !.dropped = Registered(Proc)]
       ELSE UNCHANGED <<procVars, cleaned>>
    /\ UNCHANGED <<stopping, gemini_started, worker, queue, run, result,
                   runs, langVars, histVars, dialog>>

InitGui == LangIdle /\ HistDefaults /\ PipeIdle /\ GuiIdle

NextGui ==
    \/ U_ProcessClick
    \/ U_StopClick
    \/ U_Close
    \/ U_CloseDone
    \/ W_Start
    \/ W_Check1
    \/ W_Download
    \/ W_Check2
    \/ W_GeminiFlag
    \/ W_Gemini
    \/ W_Finally
    \/ W_Exit
    \/ D_ShowSubtitles
    \/ D_DisableStop
    \/ D_ShowChapters
    \/ D_ShowResults
    \/ D_ShowError
    \/ D_ProcessingFinished

SpecGui == InitGui /\ [][NextGui]_vars

\* the worker thread runs on while the process lives
WorkerStep ==
    \/ W_Start
    \/ W_Check1
    \/ W_Download
    \/ W_Check2
    \/ W_GeminiFlag
    \/ W_Gemini
    \/ W_Finally
    \/ W_Exit

\* the main loop runs the posted callbacks, and a handler that has begun
\* runs to its end
MainLoopStep ==
    \/ D_ShowSubtitles
    \/ D_DisableStop
    \/ D_ShowChapters
    \/ D_ShowResults
    \/ D_ShowError
    \/ D_ProcessingFinished
    \/ U_CloseDone

\* the window under its scheduling: the thread and the main loop make
\* progress, the user's clicks are under no obligation
SpecGuiFair == SpecGui /\ WF_vars(WorkerStep) /\ WF_vars(MainLoopStep)

----------------------------------------------------------------------------
(* instruction_history.py: the Previous Instructions dialog *)

\* the rows built by show_dialog, newest first, each with the index its
\* entry had in the history when the dialog was opened
Rows(history) ==
    [i \in 1..Len(history) |->
        [content |-> history[Len(history) - i + 1].content,
         original_index |-> Len(history) - i,
         shown |-> TRUE]]

DialogContents == { <<"a">>, <<"b">>, <<"c">> }

\* the histories that adds at clock 0 leave: distinct contents
DialogHistories ==
    { [i \in 1..Len(cs) |-> NewEntry(cs[i], 0)] :
        cs \in { c \in UNION { [1..n -> DialogContents] : n \in 0..3 } :
                    \A i, j \in 1..Len(c) : i # j => c[i] # c[j] } }

\* values of the limit spinbox
DialogLimits == { 0, 2 }

ShowDialog ==
    /\ ~dialog.open
    /\ dialog' = [open |-> TRUE, rows |-> Rows(instruction_history),
                  clicked |-> <<>>]
    /\ UNCHANGED <<histVars, langVars, pipeVars, windowVars>>

\* Delete on row r, confirmed: _delete_instruction(original_index, frame)
DialogDelete(r) ==
    /\ dialog.open
    /\ dialog.rows[r].shown
    /\ DeleteInstruction(dialog.rows[r].original_index)
    /\ dialog' = [dialog EXCEPT !.rows[r].shown = FALSE,
                                !.clicked = dialog.rows[r].content]
    /\ UNCHANGED <<langVars, pipeVars, windowVars>>

\* the limit spinbox: _on_limit_change
DialogLimitChange(new_limit) ==
    /\ dialog.open
    /\ IF MinLimit <= new_limit /\ new_limit <= MaxLimit
       THEN SetHistoryLimit(new_limit)
       ELSE UNCHANGED histVars
    /\ dialog' = [dialog EXCEPT !.clicked = <<>>]
    /\ UNCHANGED <<langVars, pipeVars, windowVars>>

\* the Close button
CloseDialog ==
    /\ dialog.open
    /\ dialog' = NoDialog
    /\ UNCHANGED <<histVars, langVars, pipeVars, windowVars>>

InitDialog ==
    /\ LangIdle
    /\ PipeIdle
    /\ GuiIdle
    /\ loaded = NoDocument
    /\ history_type = "list"
    /\ instruction_history \in DialogHistories
    /\ instruction_history_limit = DefaultLimit
    /\ HistFresh

NextDialog ==
    \/ ShowDialog
    \/ \E r \in 1..Len(dialog.rows) : DialogDelete(r)
    \/ \E new_limit \in DialogLimits : DialogLimitChange(new_limit)
    \/ CloseDialog

SpecDialog == InitDialog /\ [][NextDialog]_vars

----------------------------------------------------------------------------
(* Properties of the language resolver *)

SelectCalled == selected.kind # "none"

CatalogIdx == 1..Len(available_subs)

\* a two-part hyphenated identifier that does not end in '-orig'
TwoPart(id) == Len(id) = 2 /\ id[2] # "orig"

\* identifier i is a translation into / from the preferred language
IntoPref(i) ==
    TwoPart(available_subs[i]) /\ EndsWithDash(available_subs[i], language)

FromPref(i) ==
    TwoPart(available_subs[i]) /\ <<available_subs[i][1]>> = language

NoDirectMatch ==
    /\ Truthy(language)
    /\ ~InSeq(PlusOrig(language), available_subs)
    /\ ~InSeq(language, available_subs)

\* C1: with no preference (None or ""), a catalog that holds an identifier
\* ending in '-orig' always yields an identifier ending in '-orig', whatever
\* major-language or other keys it also holds.
C1_OrigWinsWithoutPreference ==
    (/\ SelectCalled
     /\ ~Truthy(language)
     /\ \E i \in CatalogIdx : EndsWithOrig(available_subs[i]))
    => /\ selected.kind = "ok"
       /\ EndsWithOrig(selected.value)
       /\ InSeq(selected.value, available_subs)

\* a major-language key precedes the '-orig' key and the '-orig' key is chosen
C1_Witness ==
    /\ SelectCalled
    /\ language = EmptyStr
    /\ Len(available_subs) >= 2
    /\ available_subs[1] = <<"en">>
    /\ available_subs[2] = <<"de", "orig">>
    /\ selected = Return(<<"de", "orig">>)

\* C2: for a preference p whose key '<p>-orig' is in the catalog the result
\* is '<p>-orig', also when p is a plain key and auto-translated identifiers
\* containing p are present.
C2_PreferredOrigWins ==
    (/\ SelectCalled
     /\ Truthy(language)
     /\ InSeq(PlusOrig(language), available_subs))
    => selected = Return(PlusOrig(language))

\* plain 'en' and translated 'de-en' precede 'en-orig', which is chosen
C2_Witness ==
    /\ SelectCalled
    /\ language = <<"en">>
    /\ available_subs = << <<"en">>, <<"de", "en">>, <<"en", "orig">> >>
    /\ selected = Return(<<"en", "orig">>)

\* C3: for a preference p that is neither a key nor has a '<p>-orig' key: if
\* a two-part non-orig identifier ends in '-<p>', the result ends in '-<p>';
\* if none does but some two-part non-orig identifier has p as its source
\* side, the result is the first of those in catalog order.
C3_TranslationIntoPreferred ==
    (SelectCalled /\ NoDirectMatch)
    => /\ (\E i \in CatalogIdx : IntoPref(i))
          => /\ selected.kind = "ok"
             /\ EndsWithDash(selected.value, language)
             /\ \E i \in CatalogIdx :
                   IntoPref(i) /\ selected.value = available_subs[i]
       /\ ((\A i \in CatalogIdx : ~IntoPref(i))
             /\ (\E i \in CatalogIdx : FromPref(i)))
          => /\ selected.kind = "ok"
             /\ \E i \in CatalogIdx :
                   /\ FromPref(i)
                   /\ \A j \in 1..(i - 1) : ~FromPref(j)
                   /\ selected.value = available_subs[i]

\* 'en-xx' (en as source) precedes 'de-en' (into en), and 'de-en' is chosen
C3_Witness ==
    /\ SelectCalled
    /\ language = <<"en">>
    /\ Len(available_subs) >= 2
    /\ available_subs[1] = <<"en", "xx">>
    /\ available_subs[2] = <<"de", "en">>
    /\ NoDirectMatch
    /\ selected = Return(<<"de", "en">>)

\* C4: for a non-empty catalog and a non-empty preference p that matches no
\* key as '<p>-orig', as p, or as either side of a two-part non-orig
\* identifier, selection raises the 'not found' error naming p and returns
\* no identifier.
C4_NotFoundNamesPreference ==
    (/\ SelectCalled
     /\ available_subs # <<>>
     /\ NoDirectMatch
     /\ \A i \in CatalogIdx : ~IntoPref(i) /\ ~FromPref(i))
    => /\ selected.kind = "raise"
       /\ selected.cls = "ValueError"
       /\ selected.text = "Requested language '{}' not found"
       /\ selected.arg = language
       /\ selected.value = None

\* the preference occurs only inside a three-part identifier: not found
C4_Witness ==
    /\ SelectCalled
    /\ language = <<"en">>
    /\ available_subs = << <<"xx", "de", "en">>, <<"de">> >>
    /\ selected.kind = "raise"
    /\ selected.arg = <<"en">>

\* the base language of a track identifier
BaseLang(id) ==
    IF EndsWithOrig(id) THEN StripOrig(id)
    ELSE IF HasHyphen(id) THEN FirstPart(id)
    ELSE id

SeqSet(s) == {s[i] : i \in 1..Len(s)}

\* C5: the classification puts every base language of the catalog in exactly
\* one of the buckets original / standard / auto_translated: the buckets are
\* pairwise disjoint and no base language is omitted.
C5_ExactlyOneBucket ==
    (langs.called /\ langs.listing_ok)
    => LET o == SeqSet(langs.ret.original)
           s == SeqSet(langs.ret.standard)
           a == SeqSet(langs.ret.auto_translated)
       IN  /\ o \cap s = {}
           /\ o \cap a = {}
           /\ s \cap a = {}
           /\ \A i \in CatalogIdx :
                 BaseLang(available_subs[i]) \in o \cup s \cup a

----------------------------------------------------------------------------
(* Properties of the instruction history store *)

ContentsOf(history) == [i \in 1..Len(history) |-> history[i].content]

Without(history, c) == SelectSeq(history, LAMBDA e : e.content # c)

\* the last n elements of a sequence of at least n elements
LastN(xs, n) == SubSeq(xs, Len(xs) - n + 1, Len(xs))

\* C8: add(c) for a content c that is already stored leaves exactly one entry
\* with content c, placed last with its timestamp set to the time of this
\* add; the number of entries is unchanged and the other entries keep their
\* relative order.
C8_ReAddPromotes ==
    (/\ lastOp.op = "add"
     /\ \E i \in 1..Len(lastOp.pre) : lastOp.pre[i].content = lastOp.arg)
    => LET h == instruction_history
           c == lastOp.arg
       IN  /\ Cardinality({i \in 1..Len(h) : h[i].content = c}) = 1
           /\ h[Len(h)].content = c
           /\ h[Len(h)].timestamp = IsoFormat(lastOp.t)
           /\ Len(h) = Len(lastOp.pre)
           /\ Without(h, c) = Without(lastOp.pre, c)

\* 'a' stored at time 0 before 'b' is added again at a later time
C8_Witness ==
    /\ lastOp.op = "add"
    /\ lastOp.arg = <<"a">>
    /\ ContentsOf(lastOp.pre) = << <<"a">>, <<"b">> >>
    /\ lastOp.pre[1].timestamp = IsoFormat(0)
    /\ lastOp.t > 0
    /\ ContentsOf(instruction_history) = << <<"b">>, <<"a">> >>
    /\ instruction_history[2].timestamp = IsoFormat(lastOp.t)

\* C9: for a capacity n and a sequence of adds of contents that are not
\* blank, once more than n distinct contents have been added the store holds
\* exactly n entries: the n most recently added-or-reused contents in order
\* of last use.
C9_KeepsMostRecentN ==
    (onlyAdds /\ Len(useOrder) > instruction_history_limit)
    => /\ Len(instruction_history) = instruction_history_limit
       /\ ContentsOf(instruction_history)
             = LastN(useOrder, instruction_history_limit)

\* capacity 2 and a, b, c last used in this order leave exactly [b, c]
C9_Witness ==
    /\ onlyAdds
    /\ instruction_history_limit = 2
    /\ useOrder = << <<"a">>, <<"b">>, <<"c">> >>
    /\ ContentsOf(instruction_history) = << <<"b">>, <<"c">> >>

\* C10: set_instruction_history_limit(n) with a clamped n smaller than the
\* number of entries trims the history to exactly the n most recent entries
\* in their order; otherwise the entries are unchanged.
C10_SetLimitTrims ==
    (lastOp.op = "setlimit")
    => LET n == IF lastOp.n < 1 THEN 1
                ELSE IF lastOp.n > 50 THEN 50 ELSE lastOp.n
       IN  IF n < Len(lastOp.pre)
           THEN /\ Len(instruction_history) = n
                /\ instruction_history = LastN(lastOp.pre, n)
           ELSE instruction_history = lastOp.pre

\* three stored entries and the limit set to 2: the two most recent remain
C10_Witness ==
    /\ lastOp.op = "setlimit"
    /\ lastOp.n = 2
    /\ Len(lastOp.pre) = 3
    /\ Len(instruction_history) = 2
    /\ instruction_history = SubSeq(lastOp.pre, 2, 3)

----------------------------------------------------------------------------
(* Properties of the pipeline *)

\* what process_video raises when the catalog is empty
NoSubtitlesCondition ==
    Raised(Wrap("Error processing video: ",
           Wrap("Error checking subtitles: ",
                Raise("ValueError", "No auto-generated subtitles found",
                      None))))

EmptyCatalogRun == run.called /\ run.env.listing_ok /\ run.env.subs = <<>>

\* C6: with an empty catalog the pipeline fails, for every preference, with
\* the 'no subtitles available' condition and requests no download; a run
\* that ends in that condition is one whose catalog was empty, so that the
\* caller can tell it from 'language not found' and from a transport failure.
C6_NoSubtitlesIsDistinct ==
    /\ EmptyCatalogRun
          => /\ result = NoSubtitlesCondition
             /\ downloads = run.pre.downloads
    /\ (run.called /\ result = NoSubtitlesCondition) => EmptyCatalogRun

\* the part of C6 that the code keeps: the failure and the absent download
C6_EmptyCatalogFails ==
    EmptyCatalogRun
       => /\ result = NoSubtitlesCondition
          /\ downloads = run.pre.downloads

\* C7: a run of process_video whose api_key is empty or None and whose
\* download succeeds returns (SubtitleInfo, None) without an error, and the
\* AI collaborator is not invoked during the run.
C7_NoKeySkipsAI ==
    (run.called /\ ~Truthy(run.options.api_key) /\ run.dl.kind = "ok")
    => /\ result.kind = "ok"
       /\ result.info = run.dl.info
       /\ result.info # NoInfo
       /\ result.gemini_response = None
       /\ ai_calls = run.pre.ai_calls

\* a run with the empty string as key that downloaded the 'en' transcript
C7_Witness ==
    /\ run.called
    /\ run.options.api_key = EmptyStr
    /\ result.kind = "ok"
    /\ result.info.language = <<"en">>
    /\ result.info.content = <<"transcript", "en">>
    /\ result.gemini_response = None
    /\ downloads = 1
    /\ ai_calls = 0

\* C11: in every state reached from the empty history by add, setCapacity
\* and deleteAt, no two stored entries have the same content.
C11_NoDuplicateContent ==
    \A i, j \in 1..Len(instruction_history) :
        i # j => instruction_history[i].content
                    # instruction_history[j].content

\* a stored content was added once more and two distinct entries are stored
C11_Witness ==
    /\ lastOp.op = "add"
    /\ \E i \in 1..Len(lastOp.pre) : lastOp.pre[i].content = lastOp.arg
    /\ Len(lastOp.pre) >= 2
    /\ Len(instruction_history) >= 2

----------------------------------------------------------------------------
(* Further properties of the language resolver *)

AutoMode == SelectCalled /\ ~Truthy(language)

NoOrigKey == \A i \in CatalogIdx : ~EndsWithOrig(available_subs[i])

\* position k of the priority list is a key of the catalog
MajorIsKey(k) == InSeq(<<MAJOR_LANGUAGES[k]>>, available_subs)

\* C19: with no preference and no '-orig' identifier the result is the first
\* code of the priority list that is a key; if none is a key it is the first
\* key of the catalog; automatic selection fails only on the empty catalog.
C19_MajorThenFirstKey ==
    AutoMode
    => /\ (selected.kind = "raise" => available_subs = <<>>)
       /\ (available_subs # <<>> /\ NoOrigKey)
          => IF \E k \in 1..Len(MAJOR_LANGUAGES) : MajorIsKey(k)
             THEN \E k \in 1..Len(MAJOR_LANGUAGES) :
                     /\ MajorIsKey(k)
                     /\ \A m \in 1..(k - 1) : ~MajorIsKey(m)
                     /\ selected = Return(<<MAJOR_LANGUAGES[k]>>)
             ELSE selected = Return(available_subs[1])

\* 'de' precedes 'en' in the catalog, 'en' precedes 'de' in the priority list
C19_Witness ==
    /\ AutoMode
    /\ available_subs = << <<"xx">>, <<"de">>, <<"en">> >>
    /\ selected = Return(<<"en">>)

\* C20: a failure of the transcript source while listing is never reported
\* as 'no subtitles available': the classification is empty, and the
\* warning shown, only when the listing succeeded with an empty catalog.
C20_ListingFailureNotEmpty ==
    (langs.called
       /\ (langs.ret = EmptyDict
             \/ langs.dialog = "Warning: No subtitles available for this video."))
    => (langs.listing_ok /\ available_subs = <<>>)

----------------------------------------------------------------------------
(* Properties of cleanup *)

FailedRun == run.called /\ result.kind = "raise"

----------------------------------------------------------------------------
(* Properties of the prompt *)

AllSpace(s) == \A i \in 1..Len(s) : IsSpace(s[i])

\* t is s without its leading and trailing whitespace
IsTrimOf(t, s) ==
    \E a, b \in 1..Len(s) :
        /\ a <= b
        /\ ~IsSpace(s[a]) /\ ~IsSpace(s[b])
        /\ \A i \in 1..Len(s) : (i < a \/ i > b) => IsSpace(s[i])
        /\ t = SubSeq(s, a, b)

\* C17: the prompt handed to the AI collaborator is determined by the custom
\* instructions and the transcript: instructions that are empty after trimming
\* give the two sections Instructions and Content, any other value gives the
\* three sections System Instructions, User Instructions (with the trimmed
\* text) and Content; the content section is the downloaded transcript
C17_PromptForm ==
    (run.called /\ ai_calls > run.pre.ai_calls)
    => LET ci == run.options.custom_instructions
           p == run.prompt
       IN  /\ p.system = GEMINI_PROMPT
           /\ p.content = run.dl.info.content
           /\ IF AllSpace(ci)
              THEN /\ p.headings = <<"## Instructions", "## Content">>
                   /\ p.user = <<>>
                   /\ p.note = ""
              ELSE /\ p.headings = <<"## System Instructions",
                                     "## User Instructions", "## Content">>
                   /\ IsTrimOf(p.user, ci)
                   /\ p.note = UserNote

\* the AI step ran with instructions that carry surrounding whitespace
C17_Witness ==
    /\ run.called
    /\ ai_calls > run.pre.ai_calls
    /\ run.options.custom_instructions = <<" ", "a">>
    /\ run.prompt.user = <<"a">>
    /\ Len(run.prompt.headings) = 3

----------------------------------------------------------------------------
(* Properties of a failing AI step *)

\* the download of the last run succeeded and only its AI step failed
OnlyAIFailed == run.called /\ run.dl.kind = "ok" /\ result.kind = "raise"

\* C16: when the transcript download succeeds and only the AI step fails, the
\* transcript is not lost: the outcome of process_video still gives the caller
\* the downloaded transcript text
C16_TranscriptSurvivesAIFailure ==
    OnlyAIFailed => result.info.content = run.dl.info.content

----------------------------------------------------------------------------
(* Properties of loading persisted settings *)

InRange(limit) == MinLimit <= limit /\ limit <= MaxLimit

\* the document is a JSON object with a list of entries that all have a
\* 'content' and with a limit within the allowed range
WellFormed(doc) ==
    /\ doc.parses
    /\ doc.history_type = "list"
    /\ \A i \in 1..Len(doc.history) : doc.history[i].content # MissingContent
    /\ InRange(doc.limit)

\* C18: after loading any persisted document that is missing, unparsable or
\* malformed (history not a list, entries without 'content', limit outside
\* [1,50]) the history is the empty default with the default limit, and no
\* history operation ever raises
C18_MalformedLoadIsDefaults ==
    /\ (lastOp.op = "none" /\ ~WellFormed(loaded))
       => /\ history_type = "list"
          /\ instruction_history = <<>>
          /\ instruction_history_limit = DefaultLimit
    /\ lastOp.raised.kind # "raise"

----------------------------------------------------------------------------
(* Properties of the window's processing run *)

\* the current run downloaded a transcript and processing_finished has run
FinishedWithTranscript == ui.finished /\ worker.info # NoInfo

\* C14: with the keep-files option set, the downloaded transcript file that
\* SubtitleInfo refers to still exists after processing has finished and
\* cleanup has run
C14_KeptFileSurvives ==
    (FinishedWithTranscript /\ worker.options.keep_files /\ cleaned.called)
    => worker.info.file_path \in files

ResultKinds == {"show_subtitles", "show_chapters", "show_results"}

\* C15: when the stopping flag is set at the check made after the transcript
\* download, the AI collaborator is not invoked for that run and neither
\* subtitles nor chapters are delivered: none is posted and none is shown
C15_StopAfterDownloadSkipsAI ==
    worker.check2 = "stopped"
    => /\ ai_calls = worker.ai_before
       /\ worker.pc \in {"finally", "exit", "done"}
       /\ \A i \in 1..Len(queue) : queue[i].kind \notin ResultKinds
       /\ ui.subtitles_text = None
       /\ ui.chapters_text = None

\* a run stopped after its download has finished
C15_Witness ==
    /\ worker.check2 = "stopped"
    /\ worker.info # NoInfo
    /\ downloads > 0
    /\ ui.finished
    /\ worker.pc = "done"

----------------------------------------------------------------------------
(* Properties of a run that fails on its input *)

\* the last run failed because its catalog was empty or because the requested
\* language was not found in it, and nothing has been called since
InputErrorRun ==
    /\ run.called
    /\ ~cleaned.called
    /\ run.env.listing_ok
    /\ \/ run.env.subs = <<>>
       \/ _select_language(run.env.subs, run.options.language).kind = "raise"

\* C21: a run that fails because the requested language is not found or the
\* catalog is empty creates no partial state: no working directory has been
\* created, no download has been requested, the registry is unchanged
C21_InputErrorLeavesNothing ==
    InputErrorRun
    => /\ result.kind = "raise"
       /\ tmpdirs = run.pre.tmpdirs
       /\ downloads = run.pre.downloads
       /\ temp_files = run.pre.temp_files

----------------------------------------------------------------------------
(* Properties of the cleanup at the end of a run of the window *)

\* C22: cleanup is called after every finished run, after a normal completion
\* and after a cooperative stop alike: once processing_finished has run for a
\* run that downloaded a transcript, cleanup() has been called on its
\* processor, so that the registered file is deleted and not left to a later
\* run or to the closing of the window
C22_CleanupAfterEveryRun ==
    FinishedWithTranscript => cleaned.called

----------------------------------------------------------------------------
(* Properties of the registry under concurrent use *)

\* C23: when cleanup runs on one thread while a download on the same
\* processor is in flight on another, no registered path is removed from the
\* registry without a deletion attempt having been made for it
C23_NoPathDroppedUnattempted ==
    cleaned.called => cleaned.dropped \subseteq cleaned.attempted

----------------------------------------------------------------------------
(* Properties of stop requests *)

\* C26: a stop request that stop_processing accepted while the worker run is
\* alive prevents the AI call of that run: under every interleaving, once a
\* stop was accepted in a run the AI collaborator is not invoked afterwards
C26_AcceptedStopPreventsAI ==
    [][worker.stop_accepted => ai_calls' = ai_calls]_vars

\* the AI call of the current run has been made
AICalled == ai_calls > worker.ai_before

\* the result or the error of the AI call has been shown
AIOutcomeShown == ui.chapters_text # None \/ ui.error # NoResult

\* C24: once the AI call of a run has been dispatched no stop request sets the
\* stopping flag; the call runs to its completion or failure, its result or
\* error is delivered, and cleanup is performed when the run finishes
C24_DispatchedAIRunsToCleanup ==
    /\ [][gemini_started => (stopping' => stopping)]_vars
    /\ []((ui.finished /\ AICalled) => (AIOutcomeShown /\ cleaned.called))

----------------------------------------------------------------------------
(* Invariant of the instruction history store *)

\* C25: in every state reached from the default settings by add, setCapacity
\* and deleteAt operations the capacity is an integer in [1,50] and the number
\* of stored entries is at most the capacity
C25_CapacityInvariant ==
    /\ instruction_history_limit \in MinLimit..MaxLimit
    /\ Len(instruction_history) <= instruction_history_limit

\* an add on a history that is full at capacity 2 drops the oldest entry
C25_Witness ==
    /\ lastOp.op = "add"
    /\ lastOp.preLimit = 2
    /\ Len(lastOp.pre) = 2
    /\ Len(instruction_history) = 2
    /\ \A i \in 1..2 : lastOp.pre[i].content # lastOp.arg
    /\ instruction_history[1] = lastOp.pre[2]

----------------------------------------------------------------------------
(* Properties of the path that a download registers *)

\* the working directory of the last run
WorkDir ==
    IF run.options.output_dir = None THEN TmpDir(run.pre.tmpdirs + 1)
    ELSE UserDir

\* C27: the path returned in SubtitleInfo and registered for cleanup is the
\* file written by this invocation's fetch of the selected track, also when
\* the caller's output directory already holds other transcript files;
\* consequently cleanup deletes no file that existed before the invocation
C27_RegisteredPathIsOwnFile ==
    (run.called /\ run.dl.kind = "ok")
    => /\ run.env.fetch = "ok"
       /\ run.dl.info.file_path = SrtPath(WorkDir, run.dl.info.language)
       /\ run.dl.info.file_path \notin run.pre.files
       /\ run.pre.files \subseteq files

\* C29: whenever _select_language returns a value, for any catalog and any
\* preference, the returned identifier is a key of the given catalog
C29_ResultIsCatalogKey ==
    (SelectCalled /\ selected.kind = "ok")
    => InSeq(selected.value, available_subs)

\* a preference that is no key resolves to the auto-translated key of the
\* catalog that targets it, and to nothing made up from the preference
C29_Witness ==
    /\ SelectCalled
    /\ language = <<"de">>
    /\ available_subs = << <<"xx", "yy">>, <<"en", "de">> >>
    /\ selected = Return(<<"en", "de">>)

----------------------------------------------------------------------------
(* Properties of the Previous Instructions dialog *)

\* C28: every confirmed Delete in the dialog removes from the stored history
\* exactly the entry whose content is shown in the clicked row, for every
\* sequence of deletions within one dialog session
C28_DeleteRemovesClickedRow ==
    (dialog.open /\ dialog.clicked # <<>> /\ lastOp.op = "delete")
    => ContentsOf(instruction_history)
          = ContentsOf(Without(lastOp.pre, dialog.clicked))

----------------------------------------------------------------------------
(* Termination of a processing run in the window *)

\* no worker is between its first line and its finally clause
NoWorkerInFlight == worker.pc \in {"idle", "exit", "done"}

\* processing_finished has run once for every started run but the current one
FinishedOncePerRun ==
    ui.finished_runs = IF runs > 0 /\ ~ui.finished THEN runs - 1 ELSE runs

\* a step that runs processing_finished leaves Process enabled, Stop
\* disabled and both flags reset
FinishedStepResets ==
    ui'.finished_runs # ui.finished_runs
    => /\ ui'.process_btn = "normal"
       /\ ui'.stop_btn = "disabled"
       /\ ~stopping'
       /\ ~gemini_started'

\* a worker is started only when none is in flight
OneWorkerAtATime == runs' # runs => NoWorkerInFlight

====
